---------------------------- MODULE Spec2Model ----------------------------
(***************************************************************************)
(* A model of CTLungSeg/segmentation.py: remove_spots,                     *)
(* select_greater_connected_regions, reconstruct_gg_areas, find_ROI and    *)
(* bit_plane_slices.                                                       *)
(*                                                                         *)
(* A slice is a one-row image: a sequence of pixels.  A volume is a        *)
(* sequence of slices.  A DataFrame is a sequence of rows, each row a      *)
(* record holding its index label (id) and the columns LEFT, TOP, WIDTH,   *)
(* HEIGHT, AREA.  The collaborators of CTLungSeg.method                    *)
(* (connected_components_wStats, gl2bit) are not part of the file; they    *)
(* are modelled from their documented contracts.                           *)
(***************************************************************************)
EXTENDS Integers, Sequences, FiniteSets

VARIABLES
    op,             \* the function that is called
    pc,             \* "call" before the function ran, "returned" after
    img,            \* the volume argument (img / stack)
    param,          \* n_reg of select_greater_connected_regions, area of remove_spots
    bits,           \* the bits argument of bit_plane_slices
    table,          \* the stats argument of find_ROI
    strict,         \* the numpy build: TRUE when a comparison of arrays that
                    \* do not broadcast raises (numpy >= 1.25), FALSE when it
                    \* evaluates to the scalar False (older numpy)
    ret,            \* the returned value
    exc,            \* "none", or the exception the call ended in
    heap,           \* reconstruct_gg_areas: the arrays, by buffer name
    first,          \* reconstruct_gg_areas: buffer the name first is bound to
    second,         \* reconstruct_gg_areas: buffer the name second is bound to
    reconstructed,  \* reconstruct_gg_areas: buffer the name reconstructed is bound to
    fi,             \* number of iterations done by the loop of line 115
    bi,             \* number of iterations done by the loop of line 118
    mi,             \* number of iterations done by the loop of line 121
    mask0,          \* the content of the argument mask when the call started
    round           \* 1 for a first call, 2 for a call on the result of a call

vars == <<op, pc, img, param, bits, table, strict, ret, exc,
          heap, first, second, reconstructed, fi, bi, mi, mask0, round>>

callVars == <<op, pc, img, param, bits, table, strict, ret, exc>>
recVars  == <<heap, first, second, reconstructed, fi, bi, mi, mask0, round>>

-----------------------------------------------------------------------------
(* Bounds of the model.                                                    *)

MaxWidth   == 5     \* pixels in a slice of a small volume
MaxParam   == 3     \* largest n_reg / area tried
MaxRows    == 2     \* foreground rows of a stats table given to find_ROI
MaxBitsLen == 3     \* largest number of entries of bits
MaxSlices  == 4     \* slices of a volume given to reconstruct_gg_areas

(* Constants of the program.                                               *)

Marker    == 255    \* the value written into the label map for a kept region
AreaCol   == 4      \* the column read by stat.iat[i, 4]
NumPlanes == 8      \* binary[8 - bit, ...]
NumSig    == 3      \* reshape(3, 1, 1, 1)

SliceIdx   == {1, 2}                \* the slices of a small volume
PixelVals  == {0, 255}              \* a binary input: background, foreground
Params     == -1 .. MaxParam
BigCounts  == {255, 256, 257}       \* region counts around the uint8 range
Coords     == {0, 1}                \* LEFT / TOP of a row given to find_ROI
Extents    == {1, 2}                \* WIDTH / HEIGHT of a row given to find_ROI
BitVals    == {0, 1, 2, 7, 8, 9, 16, 17}
Voxels     == {0, 1, 129, 170, 255}
FgValues   == {1, 255}              \* foreground of a mask of reconstruct_gg_areas
PixelIdx   == {1, 2}                \* the pixels of a slice of such a mask

-----------------------------------------------------------------------------
(* Numbers.                                                                *)

Pow2(n) == 2 ^ n

\* An array held by value: the elements of the sequence f are computed once,
\* when the array is built, and not again at every read.
AsArray(f) == f \o <<>>

\* astype(np.uint8) / np.uint8(x) of an integer array element
UInt8(x) == x % 256

\* astype('int16')
Int16(x) == ((x + 32768) % 65536) - 32768

SetMin(S) == CHOOSE x \in S : \A y \in S : x <= y
SetMax(S) == CHOOSE x \in S : \A y \in S : x >= y

\* bit k (0 = least significant) of a byte
BitOf(v, k) == (v \div Pow2(k)) % 2

-----------------------------------------------------------------------------
(* CTLungSeg.method.connected_components_wStats, from its contract: per    *)
(* slice a label map (0 the background, 1..N the connected regions, here   *)
(* the maximal runs of non-zero pixels of the row, numbered in scan order) *)
(* and a stats table with one row per label, row 0 being the background,   *)
(* whose AREA is the number of pixels carrying the label.                  *)

Columns == <<"LEFT", "TOP", "WIDTH", "HEIGHT", "AREA">>

StatRow(lab, k) ==
    LET P == {p \in 1 .. Len(lab) : lab[p] = k}
    IN  IF P = {}
        THEN [id |-> k, LEFT |-> 0, TOP |-> 0, WIDTH |-> 0, HEIGHT |-> 0, AREA |-> 0]
        ELSE [id |-> k, LEFT |-> SetMin(P) - 1, TOP |-> 0,
              WIDTH |-> SetMax(P) - SetMin(P) + 1, HEIGHT |-> 1,
              AREA |-> Cardinality(P)]

connected_components_row(row) ==
    LET W      == Len(row)
        starts == {q \in 1 .. W : row[q] # 0 /\ (q = 1 \/ row[q - 1] = 0)}
        lab    == AsArray([p \in 1 .. W |->
                      IF row[p] = 0 THEN 0
                      ELSE Cardinality({q \in starts : q <= p})])
        N      == Cardinality(starts)
    IN  [lab |-> lab, stats |-> AsArray([k \in 1 .. N + 1 |-> StatRow(lab, k - 1)])]

connected_components_wStats(v) ==
    LET cc == AsArray([s \in 1 .. Len(v) |-> connected_components_row(v[s])])
    IN  [labs  |-> AsArray([s \in 1 .. Len(v) |-> cc[s].lab]),
         stats |-> AsArray([s \in 1 .. Len(v) |-> cc[s].stats])]

-----------------------------------------------------------------------------
(* The pandas operations the file uses.                                    *)

\* df.drop(index = label)
Drop(df, label) == SelectSeq(df, LAMBDA r : r.id # label)

\* df.sort_values(by = [col], ascending = False); rows of equal value keep
\* their order (the order among them is not fixed by pandas' default sort
\* and decides nothing below but the order within an index)
SortDescending(df, col) ==
    LET n  == Len(df)
        rk == AsArray([j \in 1 .. n |->
                 1 + Cardinality({k \in 1 .. n :
                        \/ df[k][col] > df[j][col]
                        \/ df[k][col] = df[j][col] /\ k < j})])
    IN  AsArray([k \in 1 .. n |-> df[CHOOSE j \in 1 .. n : rk[j] = k]])

\* df.iat[i, c]
Iat(df, i, c) == df[i + 1][Columns[c + 1]]

\* df.query('col == v').index
QueryEqIndex(df, col, v) ==
    LET q == SelectSeq(df, LAMBDA r : r[col] = v)
    IN  AsArray([k \in 1 .. Len(q) |-> q[k].id])

\* df.query('col < v').index
QueryLtIndex(df, col, v) ==
    LET q == SelectSeq(df, LAMBDA r : r[col] < v)
    IN  AsArray([k \in 1 .. Len(q) |-> q[k].id])

-----------------------------------------------------------------------------
(* remove_spots, lines 44-65.                                              *)

\* lab[i][lab[i] == j] = 0 for every j of the index, lines 62-63
RECURSIVE EraseLabels(_, _, _)
EraseLabels(lab, index, k) ==
    IF k > Len(index) THEN lab
    ELSE EraseLabels(AsArray([p \in 1 .. Len(lab) |->
                                 IF lab[p] = index[k] THEN 0 ELSE lab[p]]),
                     index, k + 1)

\* df.query('col <= v').index
QueryLeIndex(df, col, v) ==
    LET q == SelectSeq(df, LAMBDA r : r[col] <= v)
    IN  AsArray([k \in 1 .. Len(q) |-> q[k].id])

SpotIndexLe(stat, area) == QueryLeIndex(stat, "AREA", area)

\* stat.query('AREA < area').index, line 62
SpotIndex(stat, area) == QueryLtIndex(stat, "AREA", area)

\* lab != 0, astype(np.uint8): lines 64-65
NonZero(lab) == AsArray([p \in 1 .. Len(lab) |-> IF lab[p] # 0 THEN 1 ELSE 0])

remove_spots(v, area) ==
    LET cc == connected_components_wStats(v)
    IN  AsArray([s \in 1 .. Len(v) |->
            NonZero(EraseLabels(cc.labs[s], SpotIndex(cc.stats[s], area), 1))])

-----------------------------------------------------------------------------
(* select_greater_connected_regions, lines 68-96.                          *)

\* lab == np.uint8(index), line 91: the index is cast to uint8 and compared
\* with the label map under numpy's broadcasting of a (1, W) array with a
\* (k,) array.
LabelMask(lab, index, st) ==
    LET u == AsArray([k \in 1 .. Len(index) |-> UInt8(index[k])])
        W == Len(lab)
    IN  IF Len(u) = 1
        THEN [mask |-> AsArray([p \in 1 .. W |-> lab[p] = u[1]]), exc |-> "none"]
        ELSE IF Len(u) = W
        THEN [mask |-> AsArray([p \in 1 .. W |-> lab[p] = u[p]]), exc |-> "none"]
        ELSE IF W = 1
        THEN [mask |-> <<>>, exc |-> "IndexError"]
        ELSE IF st
        THEN [mask |-> <<>>, exc |-> "ValueError"]
        ELSE [mask |-> AsArray([p \in 1 .. W |-> FALSE]), exc |-> "none"]

\* lab[mask] = value
AssignWhere(lab, mask, value) ==
    AsArray([p \in 1 .. Len(lab) |-> IF mask[p] THEN value ELSE lab[p]])

\* the loop of lines 89-91, from iteration i on
RECURSIVE SelectLoop(_, _, _, _, _)
SelectLoop(stat, lab, i, n_reg, st) ==
    IF i >= n_reg THEN [lab |-> lab, exc |-> "none"]
    ELSE LET index == QueryEqIndex(stat, "AREA", Iat(stat, i, AreaCol))
             m     == LabelMask(lab, index, st)
         IN  IF m.exc # "none" THEN [lab |-> lab, exc |-> m.exc]
             ELSE SelectLoop(stat, AssignWhere(lab, m.mask, Marker), i + 1, n_reg, st)

\* the test of line 88
EnoughRegions(stat, n_reg) == Len(stat) > n_reg - 1

\* the body of the loop of line 84 for one slice
SelectSlice(stat0, lab, n_reg, st) ==
    LET stat == SortDescending(Drop(stat0, 0), "AREA")
    IN  IF EnoughRegions(stat, n_reg)
        THEN LET r == SelectLoop(stat, lab, 0, n_reg, st)
             IN  IF r.exc # "none" THEN r
                 ELSE [lab |-> AsArray([p \in 1 .. Len(lab) |->
                                   IF r.lab[p] # Marker THEN 0 ELSE r.lab[p]]),
                       exc |-> "none"]
        ELSE [lab |-> AsArray([p \in 1 .. Len(lab) |->
                          IF lab[p] # 0 THEN 0 ELSE lab[p]]),
              exc |-> "none"]

select_greater_connected_regions(v, n_reg, st) ==
    LET cc  == connected_components_wStats(v)
        per == AsArray([s \in 1 .. Len(v) |->
                          SelectSlice(cc.stats[s], cc.labs[s], n_reg, st)])
        bad == {s \in 1 .. Len(v) : per[s].exc # "none"}
    IN  IF bad # {}
        THEN [ret |-> <<>>, exc |-> per[SetMin(bad)].exc]
        ELSE [ret |-> AsArray([s \in 1 .. Len(v) |->
                         AsArray([p \in 1 .. Len(v[s]) |-> UInt8(per[s].lab[p])])]),
              exc |-> "none"]

-----------------------------------------------------------------------------
(* find_ROI, lines 128-143.                                                *)

NaN == [nan |-> TRUE, val |-> 0]
Num(x) == [nan |-> FALSE, val |-> x]

\* stats.min(axis = 0)[col]: NaN for a table without rows
ColMin(df, col) ==
    IF Len(df) = 0 THEN NaN
    ELSE Num(SetMin({df[k][col] : k \in 1 .. Len(df)}))

\* np.max(stats[a] + stats[b]): NaN for a table without rows
SumMax(df, a, b) ==
    IF Len(df) = 0 THEN NaN
    ELSE Num(SetMax({df[k][a] + df[k][b] : k \in 1 .. Len(df)}))

\* np.nan_to_num
NanToNum(x) == IF x.nan THEN 0 ELSE x.val

ForegroundRowsAll(stats) == stats

\* stats.drop([0], axis = 0), line 141
ForegroundRows(stats) == Drop(stats, 0)

find_ROI(stats) ==
    LET st     == ForegroundRows(stats)
        corner == <<ColMin(st, "LEFT"), ColMin(st, "TOP"),
                    SumMax(st, "LEFT", "WIDTH"), SumMax(st, "TOP", "HEIGHT")>>
    IN  [k \in 1 .. 4 |-> Int16(NanToNum(corner[k]))]

-----------------------------------------------------------------------------
(* bit_plane_slices, lines 146-168.                                        *)

\* CTLungSeg.method.gl2bit, from its contract: the 8 binary planes of a
\* volume, plane 0 the most significant bit (planes are numbered from 0, as
\* numpy indexes them)
gl2bit(stack) ==
    [k \in 0 .. NumPlanes - 1 |->
        [s \in 1 .. Len(stack) |->
            [p \in 1 .. Len(stack[s]) |-> BitOf(stack[s][p], NumPlanes - 1 - k)]]]

PlaneIndexOff(b) == NumPlanes - 1 - b

\* 8 - bit, line 166
PlaneIndex(b) == NumPlanes - b

\* numpy's indexing of an axis of length n: negative indices count from the end
InRange(idx, n) == -n <= idx /\ idx <= n - 1
Wrap(idx, n) == IF idx < 0 THEN idx + n ELSE idx

\* 2**(i - 1), line 167
Significance(b) == Pow2(b - 1)

RECURSIVE WeightedSum(_, _, _, _, _)
WeightedSum(binary, bs, s, p, j) ==
    IF j > Len(bs) THEN 0
    ELSE binary[Wrap(PlaneIndex(bs[j]), NumPlanes)][s][p] * Significance(bs[j])
         + WeightedSum(binary, bs, s, p, j + 1)

bit_plane_slices(stack, bs) ==
    LET binary == gl2bit(stack)
    IN  IF \E j \in 1 .. Len(bs) : ~InRange(PlaneIndex(bs[j]), NumPlanes)
        THEN [ret |-> <<>>, exc |-> "IndexError"]
        ELSE IF Len(bs) # NumSig
        THEN [ret |-> <<>>, exc |-> "ValueError"]
        ELSE [ret |-> [s \in 1 .. Len(stack) |->
                         [p \in 1 .. Len(stack[s]) |->
                             UInt8(WeightedSum(binary, bs, s, p, 1))]],
              exc |-> "none"]

-----------------------------------------------------------------------------
(* The arguments the functions are called with.                            *)

Rows(w) == [1 .. w -> PixelVals]
SmallVolumes == [SliceIdx -> Rows(MaxWidth)]

\* a row of n regions, all of one pixel but region big, which has two
BigRow(n, big) ==
    [p \in 1 .. 2 * n |->
        IF \/ p < 2 * big - 1 /\ p % 2 = 1
           \/ p \in {2 * big - 1, 2 * big}
           \/ p > 2 * big + 1 /\ p % 2 = 0
        THEN 255 ELSE 0]
BigVolumes == {<<BigRow(n, big)>> : n \in BigCounts, big \in {1}} \cup
              {<<BigRow(n, n)>> : n \in BigCounts}

Background == [id |-> 0, LEFT |-> 0, TOP |-> 0,
               WIDTH |-> 5, HEIGHT |-> 5,
               AREA |-> 1]
RegionRows(k) ==
    {[id |-> k, LEFT |-> l, TOP |-> t, WIDTH |-> w, HEIGHT |-> h, AREA |-> w * h] :
        l \in Coords, t \in Coords, w \in Extents, h \in Extents}
RECURSIVE TablesOf(_)
TablesOf(n) ==
    IF n = 0 THEN {<<Background>>}
    ELSE {Append(t, r) : t \in TablesOf(n - 1), r \in RegionRows(n)}
ExampleTable ==
    <<Background,
      [id |-> 1, LEFT |-> 2, TOP |-> 3, WIDTH |-> 4, HEIGHT |-> 5, AREA |-> 20]>>
Tables == UNION {TablesOf(n) : n \in 0 .. MaxRows} \cup {ExampleTable}

BitTuples == UNION {[1 .. n -> BitVals] : n \in 1 .. MaxBitsLen}
Stacks == {<<<<v>>>> : v \in Voxels}

RecVolumes ==
    UNION {[1 .. n -> [PixelIdx -> {0, fg}]] :
             n \in 1 .. MaxSlices, fg \in FgValues}

NoHeap == [b \in {"mask", "first", "second", "reconstructed"} |-> <<>>]

IdleRec ==
    /\ heap = NoHeap
    /\ first = "none" /\ second = "none" /\ reconstructed = "none"
    /\ fi = 0 /\ bi = 0 /\ mi = 0
    /\ mask0 = <<>>
    /\ round = 0

Init ==
    /\ pc = "call"
    /\ ret = <<>>
    /\ exc = "none"
    /\ \/ /\ op = "select_greater_connected_regions"
          /\ img \in SmallVolumes \cup BigVolumes
          /\ param \in Params
          /\ strict \in BOOLEAN
          /\ bits = <<>> /\ table = <<>>
       \/ /\ op = "remove_spots"
          /\ img \in SmallVolumes
          /\ param \in Params
          /\ strict = FALSE
          /\ bits = <<>> /\ table = <<>>
       \/ /\ op = "find_ROI"
          /\ table \in Tables
          /\ img = <<>> /\ param = 0 /\ strict = FALSE /\ bits = <<>>
       \/ /\ op = "bit_plane_slices"
          /\ img \in Stacks
          /\ bits \in BitTuples
          /\ param = 0 /\ strict = FALSE /\ table = <<>>
    /\ IdleRec

CallSelect ==
    /\ pc = "call" /\ op = "select_greater_connected_regions"
    /\ LET r == select_greater_connected_regions(img, param, strict)
       IN  ret' = r.ret /\ exc' = r.exc
    /\ pc' = "returned"
    /\ UNCHANGED <<op, img, param, bits, table, strict, recVars>>

CallRemoveSpots ==
    /\ pc = "call" /\ op = "remove_spots"
    /\ ret' = remove_spots(img, param)
    /\ pc' = "returned"
    /\ UNCHANGED <<op, img, param, bits, table, strict, exc, recVars>>

CallFindROI ==
    /\ pc = "call" /\ op = "find_ROI"
    /\ ret' = find_ROI(table)
    /\ pc' = "returned"
    /\ UNCHANGED <<op, img, param, bits, table, strict, exc, recVars>>

CallBitPlaneSlices ==
    /\ pc = "call" /\ op = "bit_plane_slices"
    /\ LET r == bit_plane_slices(img, bits)
       IN  ret' = r.ret /\ exc' = r.exc
    /\ pc' = "returned"
    /\ UNCHANGED <<op, img, param, bits, table, strict, recVars>>

Next ==
    \/ CallSelect
    \/ CallRemoveSpots
    \/ CallFindROI
    \/ CallBitPlaneSlices

Spec == Init /\ [][Next]_vars

-----------------------------------------------------------------------------
(* reconstruct_gg_areas, lines 99-123.  The arrays live in a heap of named *)
(* buffers; a Python name is bound to one of them.  The argument mask is   *)
(* the buffer "mask".                                                      *)

RECURSIVE BitwiseOr(_, _, _)
BitwiseOr(a, b, k) ==
    IF k = 8 THEN 0
    ELSE (IF BitOf(a, k) = 1 \/ BitOf(b, k) = 1 THEN Pow2(k) ELSE 0)
         + BitwiseOr(a, b, k + 1)

RECURSIVE BitwiseAnd(_, _, _)
BitwiseAnd(a, b, k) ==
    IF k = 8 THEN 0
    ELSE (IF BitOf(a, k) = 1 /\ BitOf(b, k) = 1 THEN Pow2(k) ELSE 0)
         + BitwiseAnd(a, b, k + 1)

RECURSIVE BitwiseXor(_, _, _)
BitwiseXor(a, b, k) ==
    IF k = 8 THEN 0
    ELSE (IF BitOf(a, k) # BitOf(b, k) THEN Pow2(k) ELSE 0)
         + BitwiseXor(a, b, k + 1)

SliceXor(x, y) == AsArray([p \in 1 .. Len(x) |-> BitwiseXor(x[p], y[p], 0)])

\* np.bitwise_or(x, y, dtype = np.uint8) of two slices
SliceOr(x, y) == AsArray([p \in 1 .. Len(x) |-> BitwiseOr(x[p], y[p], 0)])

SliceAndAsOr(x, y) == SliceOr(x, y)

\* np.bitwise_and(x, y, dtype = np.uint8) of two slices
SliceAnd(x, y) == AsArray([p \in 1 .. Len(x) |-> BitwiseAnd(x[p], y[p], 0)])

\* name = src: no copy, the name is bound to the buffer of src
AliasBuf(h, src, dst) == [heap |-> h, ref |-> src]

\* name = src.copy(): a new buffer dst with the content of src
CopyBuf(h, src, dst) == [heap |-> [h EXCEPT ![dst] = h[src]], ref |-> dst]

\* lines 111-113
RecCopy ==
    /\ op = "reconstruct_gg_areas" /\ pc = "call"
    /\ LET c1 == CopyBuf(heap, "mask", "first")
           c2 == CopyBuf(c1.heap, "mask", "second")
           c3 == CopyBuf(c2.heap, "mask", "reconstructed")
       IN  /\ heap' = c3.heap
           /\ first' = c1.ref
           /\ second' = c2.ref
           /\ reconstructed' = c3.ref
    /\ fi' = 0 /\ bi' = 0 /\ mi' = 0
    /\ pc' = "sweep"
    /\ UNCHANGED <<op, img, param, bits, table, strict, ret, exc, mask0, round>>

ForwardDone  == fi >= Len(heap[first]) - 1
BackwardDone == bi >= Len(heap[second]) - 1

\* one iteration of the loop of lines 115-116, i = fi
Forward ==
    /\ op = "reconstruct_gg_areas" /\ pc = "sweep"
    /\ ~ForwardDone
    /\ LET a == heap[first]
       IN  heap' = [heap EXCEPT ![first] =
                       [a EXCEPT ![fi + 2] = SliceOr(a[fi + 1], a[fi + 2])]]
    /\ fi' = fi + 1
    /\ UNCHANGED <<callVars, first, second, reconstructed, bi, mi, mask0, round>>

\* one iteration of the loop of lines 118-119, i = shape[0] - 1 - bi
Backward ==
    /\ op = "reconstruct_gg_areas" /\ pc = "sweep"
    /\ ~BackwardDone
    /\ LET a == heap[second]
           i == Len(a) - 1 - bi
       IN  heap' = [heap EXCEPT ![second] =
                       [a EXCEPT ![i] = SliceOr(a[i], a[i + 1])]]
    /\ bi' = bi + 1
    /\ UNCHANGED <<callVars, first, second, reconstructed, fi, mi, mask0, round>>

\* the loop of line 118 starts when the loop of line 115 has ended
BackwardAfterForward == pc = "sweep" /\ ForwardDone /\ Backward

\* one iteration of the loop of lines 121-122, i = mi
Merge ==
    /\ op = "reconstruct_gg_areas" /\ pc = "sweep"
    /\ ForwardDone /\ BackwardDone
    /\ mi < Len(heap[reconstructed])
    /\ LET a == heap[reconstructed]
       IN  heap' = [heap EXCEPT ![reconstructed] =
                       [a EXCEPT ![mi + 1] =
                           SliceAnd(heap[first][mi + 1], heap[second][mi + 1])]]
    /\ mi' = mi + 1
    /\ UNCHANGED <<callVars, first, second, reconstructed, fi, bi, mask0, round>>

\* line 123
RecReturn ==
    /\ op = "reconstruct_gg_areas" /\ pc = "sweep"
    /\ ForwardDone /\ BackwardDone
    /\ mi >= Len(heap[reconstructed])
    /\ ret' = heap[reconstructed]
    /\ pc' = "returned"
    /\ UNCHANGED <<op, img, param, bits, table, strict, exc, recVars>>

\* reconstruct_gg_areas(reconstruct_gg_areas(mask)): the result is the
\* argument of a second call
CallAgain ==
    /\ op = "reconstruct_gg_areas" /\ pc = "returned" /\ round = 1
    /\ heap' = [NoHeap EXCEPT !["mask"] = ret]
    /\ mask0' = ret
    /\ first' = "none" /\ second' = "none" /\ reconstructed' = "none"
    /\ fi' = 0 /\ bi' = 0 /\ mi' = 0
    /\ round' = 2
    /\ pc' = "call"
    /\ ret' = <<>>
    /\ UNCHANGED <<op, img, param, bits, table, strict, exc>>

InitRec ==
    /\ op = "reconstruct_gg_areas"
    /\ pc = "call"
    /\ img = <<>> /\ param = 0 /\ bits = <<>> /\ table = <<>> /\ strict = FALSE
    /\ ret = <<>>
    /\ exc = "none"
    /\ mask0 \in RecVolumes
    /\ heap = [NoHeap EXCEPT !["mask"] = mask0]
    /\ first = "none" /\ second = "none" /\ reconstructed = "none"
    /\ fi = 0 /\ bi = 0 /\ mi = 0
    /\ round = 1

\* the function as written: one loop after the other
NextRec ==
    \/ RecCopy
    \/ Forward
    \/ BackwardAfterForward
    \/ Merge
    \/ RecReturn
    \/ CallAgain

SpecRec == InitRec /\ [][NextRec]_vars

\* the two sweeps run concurrently, each in its own order
NextPar ==
    \/ RecCopy
    \/ Forward
    \/ Backward
    \/ Merge
    \/ RecReturn

SpecPar == InitRec /\ [][NextPar]_vars

-----------------------------------------------------------------------------
(* Properties.  Regions of the input are those the component analysis of   *)
(* the argument reports.                                                   *)

Returned(f) == op = f /\ pc = "returned"

\* number of foreground regions of a stats table
NumRegions(stat) == Len(stat) - 1

\* AREA of the region with label k
AreaOf(stat, k) == stat[k + 1].AREA

AllBackground(slice) == \A p \in 1 .. Len(slice) : slice[p] = 0

\* the regions of label map lab whose every pixel is 255 in out
KeptRegions(lab, stat, out) ==
    {k \in 1 .. NumRegions(stat) :
        \A p \in 1 .. Len(lab) : lab[p] = k => out[p] = Marker}

\* C1: select_greater_connected_regions, n_reg >= 1: a slice with at least
\* n_reg foreground regions, equal areas included, comes out with exactly
\* n_reg regions, their pixels 255 and all others 0, and their areas are the
\* n_reg largest of the stats table.  Stated for the slices of fewer than
\* 255 regions, whose labels stay below the marker (C10 is about the others).
C1_TopN ==
    Returned("select_greater_connected_regions") /\ param >= 1 =>
        LET cc == connected_components_wStats(img)
        IN  \A s \in 1 .. Len(img) :
              (/\ NumRegions(cc.stats[s]) >= param
               /\ NumRegions(cc.stats[s]) < Marker) =>
                /\ exc = "none"
                /\ LET lab  == cc.labs[s]
                       stat == cc.stats[s]
                       K    == KeptRegions(lab, stat, ret[s])
                   IN  /\ \A p \in 1 .. Len(lab) :
                             /\ ret[s][p] \in {0, Marker}
                             /\ ret[s][p] = Marker <=> lab[p] \in K
                       /\ Cardinality(K) = param
                       /\ NumRegions(connected_components_row(ret[s]).stats) = param
                       /\ \A k \in K : \A j \in (1 .. NumRegions(stat)) \ K :
                             AreaOf(stat, k) >= AreaOf(stat, j)

\* C2: select_greater_connected_regions: a slice with fewer foreground
\* regions than n_reg comes out all background, a slice with exactly n_reg
\* regions does not, and the output slice is what the function returns for
\* that slice alone.
C2_FewerCleared ==
    Returned("select_greater_connected_regions") =>
        LET cc == connected_components_wStats(img)
        IN  \A s \in 1 .. Len(img) :
              /\ NumRegions(cc.stats[s]) < param =>
                    exc = "none" /\ AllBackground(ret[s])
              /\ NumRegions(cc.stats[s]) = param /\ param >= 1 =>
                    exc = "none" /\ ~AllBackground(ret[s])
              /\ exc = "none" =>
                    ret[s] = select_greater_connected_regions(
                                 <<img[s]>>, param, strict).ret[1]

\* the foreground labels of stat whose AREA is that of one of the n largest
TopLabels(stat, n) ==
    LET sorted == SortDescending(Drop(stat, 0), "AREA")
    IN  {sorted[i].id : i \in 1 .. n}
TiesAtTop(stat, n) ==
    \E k \in TopLabels(stat, n) : \E j \in 1 .. NumRegions(stat) :
        j # k /\ AreaOf(stat, j) = AreaOf(stat, k)

\* no slice of the call has one of its n largest areas twice
NoTiesAtTop(stats, n) ==
    \A s \in 1 .. Len(stats) :
        NumRegions(stats[s]) >= n => ~TiesAtTop(stats[s], n)

\* C10: select_greater_connected_regions: the marker 255 and the uint8 cast
\* of the selected label do not change which pixels are kept: in a slice
\* with at least n_reg regions a pixel is 255 in the output iff its label is
\* one of the n_reg selected.  Stated for the calls in which no slice shares
\* one of its n_reg largest areas between regions, where the selection is
\* unique.
C10_MarkerHarmless ==
    Returned("select_greater_connected_regions") /\ param >= 1 =>
        LET cc == connected_components_wStats(img)
        IN  NoTiesAtTop(cc.stats, param) =>
              /\ exc = "none"
              /\ \A s \in 1 .. Len(img) :
                    NumRegions(cc.stats[s]) >= param =>
                        LET top == TopLabels(cc.stats[s], param)
                        IN  \A p \in 1 .. Len(img[s]) :
                               ret[s][p] = Marker <=> cc.labs[s][p] \in top

\* C3: remove_spots: a pixel is foreground in the output iff its region in
\* the input has AREA >= area; the output has one foreground value; no
\* region of the output has AREA below area; with area = 0 the output is the
\* input with its foreground normalised.
C3_SpotsRemoved ==
    Returned("remove_spots") =>
        LET cc == connected_components_wStats(img)
        IN  /\ exc = "none"
            /\ Len(ret) = Len(img)
            /\ \A s \in 1 .. Len(img) :
                  /\ Len(ret[s]) = Len(img[s])
                  /\ \A p \in 1 .. Len(img[s]) :
                        /\ ret[s][p] \in {0, 1}
                        /\ ret[s][p] # 0 <=>
                              /\ img[s][p] # 0
                              /\ AreaOf(cc.stats[s], cc.labs[s][p]) >= param
                  /\ LET after == connected_components_row(ret[s]).stats
                     IN  \A k \in 1 .. NumRegions(after) : AreaOf(after, k) >= param
                  /\ param = 0 =>
                        ret[s] = [p \in 1 .. Len(img[s]) |->
                                     IF img[s][p] # 0 THEN 1 ELSE 0]

\* a call that erased a region of one slice and kept a larger one of it
C3_Witness ==
    /\ Returned("remove_spots")
    /\ param = 2
    /\ \E s \in 1 .. Len(img) :
          /\ \E p \in 1 .. Len(img[s]) : img[s][p] # 0 /\ ret[s][p] = 0
          /\ \E p \in 1 .. Len(img[s]) : ret[s][p] # 0

-----------------------------------------------------------------------------
(* reconstruct_gg_areas.                                                   *)

Fg(v, i, p) == v[i][p] # 0

\* C4: reconstruct_gg_areas: pixel p of output slice i is foreground iff p is
\* foreground in some input slice j <= i and in some input slice k >= i.
C4_Reconstructed ==
    Returned("reconstruct_gg_areas") =>
        /\ Len(ret) = Len(mask0)
        /\ \A i \in 1 .. Len(mask0) :
              /\ Len(ret[i]) = Len(mask0[i])
              /\ \A p \in 1 .. Len(mask0[i]) :
                    Fg(ret, i, p) <=>
                        /\ \E j \in 1 .. i : Fg(mask0, j, p)
                        /\ \E k \in i .. Len(mask0) : Fg(mask0, k, p)

\* a call that filled a gap of one pixel and did not extend a pixel present
\* on one side only
C4_Witness ==
    /\ Returned("reconstruct_gg_areas")
    /\ \E i \in 1 .. Len(mask0) : \E p \in 1 .. Len(mask0[i]) :
          ~Fg(mask0, i, p) /\ Fg(ret, i, p)
    /\ \E i \in 1 .. Len(mask0) : \E p \in 1 .. Len(mask0[i]) :
          /\ ~Fg(mask0, i, p) /\ ~Fg(ret, i, p)
          /\ \E j \in 1 .. i : Fg(mask0, j, p)

\* every pixel is foreground on one contiguous run of slices
NoGaps(v) ==
    \A i \in 1 .. Len(v) : \A k \in i .. Len(v) : \A p \in 1 .. Len(v[i]) :
        Fg(v, i, p) /\ Fg(v, k, p) => \A j \in i .. k : Fg(v, j, p)

\* C5: reconstruct_gg_areas returns a volume without gaps unchanged, and
\* returns its own result unchanged.
C5_Idempotent ==
    Returned("reconstruct_gg_areas") =>
        /\ NoGaps(mask0) => ret = mask0
        /\ round = 2 => ret = mask0

\* a second call, on a result that is neither empty nor full
C5_Witness ==
    /\ Returned("reconstruct_gg_areas")
    /\ round = 2
    /\ Len(mask0) >= 3
    /\ \E i \in 1 .. Len(mask0) : \E p \in 1 .. Len(mask0[i]) : Fg(mask0, i, p)
    /\ \E i \in 1 .. Len(mask0) : \E p \in 1 .. Len(mask0[i]) : ~Fg(mask0, i, p)

\* the bitwise OR of pixel p over the slices lo..hi of v
RECURSIVE OrRange(_, _, _, _)
OrRange(v, p, lo, hi) ==
    IF lo > hi THEN 0 ELSE BitwiseOr(v[lo][p], OrRange(v, p, lo + 1, hi), 0)

PrefixOr(v) ==
    AsArray([i \in 1 .. Len(v) |->
        AsArray([p \in 1 .. Len(v[i]) |-> OrRange(v, p, 1, i)])])
SuffixOr(v) ==
    AsArray([i \in 1 .. Len(v) |->
        AsArray([p \in 1 .. Len(v[i]) |-> OrRange(v, p, i, Len(v))])])
\* what the loops compute when run one after the other
SequentialResult(v) ==
    AsArray([i \in 1 .. Len(v) |->
        AsArray([p \in 1 .. Len(v[i]) |->
            BitwiseAnd(OrRange(v, p, 1, i), OrRange(v, p, i, Len(v)), 0)])])

\* C9: reconstruct_gg_areas with its two sweeps interleaved in any way: the
\* forward buffer ends as the prefix-OR of the input, the backward buffer as
\* the suffix-OR, the result is that of the sweeps run one after the other,
\* and the input is never modified.
C9_SweepsIndependent ==
    op = "reconstruct_gg_areas" =>
        /\ heap["mask"] = mask0
        /\ pc = "sweep" /\ ForwardDone => heap[first] = PrefixOr(mask0)
        /\ pc = "sweep" /\ BackwardDone => heap[second] = SuffixOr(mask0)
        /\ pc = "returned" =>
              /\ heap[first] = PrefixOr(mask0)
              /\ heap[second] = SuffixOr(mask0)
              /\ ret = SequentialResult(mask0)

\* both sweeps under way at once, on a volume with a gap
C9_Witness ==
    /\ op = "reconstruct_gg_areas" /\ pc = "sweep"
    /\ fi > 0 /\ ~ForwardDone
    /\ bi > 0 /\ ~BackwardDone
    /\ ~NoGaps(mask0)

-----------------------------------------------------------------------------
(* find_ROI.                                                               *)

\* C6: find_ROI returns [min LEFT, min TOP, max(LEFT + WIDTH),
\* max(TOP + HEIGHT)] over the rows other than row 0, [0, 0, 0, 0] when there
\* is no such row, and never fails; the one region {2, 3, 4, 5} gives
\* [2, 3, 6, 8].
C6_ROI ==
    Returned("find_ROI") =>
        LET fgRows == {k \in 1 .. Len(table) : table[k].id # 0}
        IN  /\ exc = "none"
            /\ fgRows = {} => ret = <<0, 0, 0, 0>>
            /\ fgRows # {} =>
                  /\ ret[1] = SetMin({table[k].LEFT : k \in fgRows})
                  /\ ret[2] = SetMin({table[k].TOP : k \in fgRows})
                  /\ ret[3] = SetMax({table[k].LEFT + table[k].WIDTH : k \in fgRows})
                  /\ ret[4] = SetMax({table[k].TOP + table[k].HEIGHT : k \in fgRows})
            /\ table = ExampleTable => ret = <<2, 3, 6, 8>>

\* a table of two regions, the left edge from one and the right edge from
\* the other
C6_Witness ==
    /\ Returned("find_ROI")
    /\ Len(table) = 3
    /\ table[2].LEFT < table[3].LEFT
    /\ table[2].LEFT + table[2].WIDTH < table[3].LEFT + table[3].WIDTH
    /\ ret[1] = table[2].LEFT
    /\ ret[3] = table[3].LEFT + table[3].WIDTH

-----------------------------------------------------------------------------
(* bit_plane_slices and the parameters.                                    *)

RECURSIVE BitSum(_, _, _)
BitSum(v, bs, j) ==
    IF j > Len(bs) THEN 0
    ELSE Pow2(bs[j] - 1) * BitOf(v, bs[j] - 1) + BitSum(v, bs, j + 1)

BitsValid == \A j \in 1 .. Len(bits) : bits[j] \in 1 .. 8

\* C7: bit_plane_slices, bits of any length with values in 1..8: each output
\* voxel is the sum over b in bits of 2^(b-1) times bit b of the input voxel,
\* as an 8-bit value.
C7_BitPlanes ==
    Returned("bit_plane_slices") /\ BitsValid =>
        /\ exc = "none"
        /\ \A s \in 1 .. Len(img) : \A p \in 1 .. Len(img[s]) :
              ret[s][p] = UInt8(BitSum(img[s][p], bits, 1))

\* C8, as claimed: a call with n_reg <= 0, with area <= 0 or with a bit value
\* outside 1..8 ends in an InvalidParameter error.
C8_Rejected ==
    (\/ Returned("select_greater_connected_regions") /\ param <= 0
     \/ Returned("remove_spots") /\ param <= 0
     \/ Returned("bit_plane_slices") /\ ~BitsValid)
        => exc = "InvalidParameter"

\* C8, amended: nothing validates the parameters.  With n_reg <= 0
\* select_greater_connected_regions returns a volume in which the pixels
\* labelled 255 are 255 and all others 0; with area <= 0 remove_spots returns
\* the input with its foreground normalised; bit_plane_slices ends in an
\* IndexError iff a bit value is outside 1..16, otherwise in a ValueError iff
\* bits has not three entries, and otherwise returns a volume to which the
\* values 9..16 contribute nothing.
C8_NotValidated ==
    /\ Returned("select_greater_connected_regions") /\ param <= 0 =>
          /\ exc = "none"
          /\ LET cc == connected_components_wStats(img)
             IN  ret = [s \in 1 .. Len(img) |->
                          [p \in 1 .. Len(img[s]) |->
                              IF cc.labs[s][p] = Marker THEN Marker ELSE 0]]
    /\ Returned("remove_spots") /\ param <= 0 =>
          /\ exc = "none"
          /\ ret = [s \in 1 .. Len(img) |->
                       [p \in 1 .. Len(img[s]) |-> IF img[s][p] # 0 THEN 1 ELSE 0]]
    /\ Returned("bit_plane_slices") /\ ~BitsValid =>
          LET wide == \A j \in 1 .. Len(bits) : bits[j] \in 1 .. 16
              low  == SelectSeq(bits, LAMBDA b : b <= 8)
          IN  /\ exc = "IndexError" <=> ~wide
              /\ exc = "ValueError" <=> wide /\ Len(bits) # 3
              /\ exc = "none" <=> wide /\ Len(bits) = 3
              /\ exc = "none" =>
                    \A s \in 1 .. Len(img) : \A p \in 1 .. Len(img[s]) :
                        ret[s][p] = UInt8(BitSum(img[s][p], low, 1))

\* a bit value of 16 accepted and a volume returned
C8_Witness ==
    /\ Returned("bit_plane_slices")
    /\ exc = "none"
    /\ \E j \in 1 .. Len(bits) : bits[j] = 16
    /\ \E s \in 1 .. Len(img) : \E p \in 1 .. Len(img[s]) : ret[s][p] # 0

=============================================================================
